---- MODULE Spec2Model ----
(***************************************************************************)
(* A model of jetrtc/jetrest: the REST client (authorize / validate /      *)
(* invalidate / retry), the server's middleware chain and per-request      *)
(* Session, and the content negotiation of Session.Decode.                 *)
(*                                                                         *)
(* Three specifications share the variables:                               *)
(*   Spec        the Client, with concurrent callers on one Client         *)
(*   SpecServer  Server.Use, route.ServeHTTP and the Session operations    *)
(*   SpecDecode  Session.Decode as a function of destination and headers   *)
(***************************************************************************)
EXTENDS Naturals, Integers, Sequences, FiniteSets, TLC

(***************************************************************************)
(* Bounds                                                                  *)
(***************************************************************************)
\* logical Client.Request calls each caller makes
MaxCalls == 1
\* middlewares registered by Server.Use in total
MaxUse == 3
\* requests served by route.ServeHTTP in total
MaxRequests == 2
\* Session.Status / Statusf / Error calls per request
MaxStatus == 2
\* requests sent to the sample user service
MaxSample == 2
\* Join and Param calls on one URL
MaxOps == 3
\* values of the Accept header passed to accepts
MaxAccept == 3

\* goroutines calling into the one shared Client
Callers == {"g1", "g2"}
\* request slots the HTTP server handles concurrently
Reqs == {"r1", "r2"}
\* keys handlers and middlewares put into Session.Data
Keys == {"user", "token"}

VARIABLES
    \* ---- Client (src/server.go 188-353)
    cAuth,        \* Client.auth: "nil" or "auth"
    configured,   \* whether Client.Auth(auth) was called with a strategy
    call,         \* per caller: the position and locals of its Client.Request
    \* ---- Server / Session (src/server.go 16-88, src/unnamed/part_003)
    middlewares,  \* Server.middlewares, a sequence of middleware ids
    useCalls,     \* number of Server.Use calls made so far
    sess,         \* per request slot: the Session and the chain's progress
    heap,         \* the maps allocated by make(map...): map id -> contents
    served,       \* number of ServeHTTP invocations started
    \* ---- Session.Decode (src/unnamed/part_003 90-115)
    dec,          \* the input and the outcome of one Session.Decode call
    \* ---- Session.Encode, Session.Var, Session.RemoteAddr (src/unnamed/part_003)
    enc,          \* the input and the outcome of one Session.Encode call
    sv,           \* the input and the outcome of one Session.Var call
    ra,           \* the input and the outcome of one Session.RemoteAddr call
    \* ---- URL (src/unnamed/part_001)
    urlb,         \* the URL being built, and the last operation applied to it
    \* ---- sample user service (src/sample/user.go)
    users,        \* the users map: id -> the stored User, or a nil User
    log,          \* the requests answered so far, each with its response
    conn,         \* per connection: the position of the handler goroutine serving it
    fatal,        \* whether the runtime has aborted the process
    \* ---- Response.Decode (src/server.go 168-186) and accepts (part_003 212-221)
    rsp,          \* the input and the outcome of one Response.Decode call
    acpt          \* the input and the outcome of one accepts call

vars == <<cAuth, configured, call, middlewares, useCalls, sess, heap, served, dec,
          enc, sv, ra, urlb, users, log, conn, fatal, rsp, acpt>>
clientVars == <<cAuth, configured, call>>
serverVars == <<middlewares, useCalls, sess, heap, served>>
nonClientVars == <<middlewares, useCalls, sess, heap, served, dec, enc, sv, ra, urlb, users, log, conn, fatal, rsp, acpt>>
nonServerVars == <<cAuth, configured, call, dec, enc, sv, ra, urlb, users, log, conn, fatal, rsp, acpt>>
nonDecodeVars == <<clientVars, serverVars, enc, sv, ra, urlb, users, log, conn, fatal, rsp, acpt>>
nonEncodeVars == <<clientVars, serverVars, dec, sv, ra, urlb, users, log, conn, fatal, rsp, acpt>>
nonVarVars == <<clientVars, serverVars, dec, enc, ra, urlb, users, log, conn, fatal, rsp, acpt>>
nonAddrVars == <<clientVars, serverVars, dec, enc, sv, urlb, users, log, conn, fatal, rsp, acpt>>
nonURLVars == <<clientVars, serverVars, dec, enc, sv, ra, users, log, conn, fatal, rsp, acpt>>
nonSampleVars == <<clientVars, serverVars, dec, enc, sv, ra, urlb, rsp, acpt>>
nonRspVars == <<clientVars, serverVars, dec, enc, sv, ra, urlb, users, log, conn, fatal, acpt>>
nonAccVars == <<clientVars, serverVars, dec, enc, sv, ra, urlb, users, log, conn, fatal, rsp>>

(***************************************************************************)
(* Helpers on sequences                                                    *)
(***************************************************************************)
Last(s) == s[Len(s)]

(***************************************************************************)
(* ------------------------------ Client -------------------------------- *)
(* Client.Request and Client.request of src/server.go 233-353.  The        *)
(* variant at 503-600 has the same control flow without the header         *)
(* argument and the io.Reader / []byte cases.                              *)
(***************************************************************************)

\* The kinds of value r passed to Client.Request (the type switch at 266-298):
\* nil, []byte, an io.Reader, an io.Reader whose Read fails, a proto.Message,
\* plain data, and a value json.Marshal rejects.
RKinds == {"nil", "bytes", "reader", "failreader", "proto", "plain", "unmarshalable"}

\* The inputs of one logical call: the value and whether method/url make a
\* well-formed request for http.NewRequest (299).
CallInputs == {[r |-> k, url |-> "ok"] : k \in RKinds} \cup {[r |-> "nil", url |-> "bad"]}

IdleCall == [pc |-> "idle", in |-> [r |-> "nil", url |-> "ok"], attempt |-> 0,
             local |-> "nil", readerLeft |-> FALSE, body |-> "none",
             resValid |-> TRUE, trace |-> <<>>, sent |-> <<>>,
             result |-> "none", calls |-> 0, via |-> "client"]

\* Client.auth is written by Client.Auth (203-206).
ClientAuth ==
    /\ \A p \in Callers : call[p].pc = "idle" /\ call[p].calls = 0
    /\ ~configured
    /\ cAuth' = "auth"
    /\ configured' = TRUE
    /\ UNCHANGED call /\ UNCHANGED nonClientVars

\* Client.Get/Post/Put/Delete -> Client.Request (217-235): a logical call starts.
CallRequest(p) ==
    /\ call[p].pc \in {"idle", "done"}
    /\ call[p].calls < MaxCalls
    /\ \E in \in CallInputs :
         call' = [call EXCEPT ![p] =
                    [IdleCall EXCEPT !.pc = "build", !.in = in, !.attempt = 1,
                                     !.readerLeft = (in.r \in {"reader"}),
                                     !.calls = call[p].calls + 1]]
    /\ UNCHANGED <<cAuth, configured>> /\ UNCHANGED nonClientVars

\* Client.Request called by one goroutine at a time: a logical call starts
\* while no other call is in flight.
CallRequestAlone(p) ==
    /\ \A q \in Callers : call[q].pc \in {"idle", "done"}
    /\ call[p].calls < MaxCalls
    /\ \E in \in CallInputs :
         call' = [call EXCEPT ![p] =
                    [IdleCall EXCEPT !.pc = "build", !.in = in, !.attempt = 1,
                                     !.readerLeft = (in.r \in {"reader"}),
                                     !.calls = call[p].calls + 1]]
    /\ UNCHANGED <<cAuth, configured>> /\ UNCHANGED nonClientVars

\* Client.New(url) then Request.Get/Post/Put/Delete -> Request.Do (140-159): a
\* logical call made through the Request builder starts, while no other call
\* is in flight.
RequestDo(p) ==
    /\ \A q \in Callers : call[q].pc \in {"idle", "done"}
    /\ call[p].calls < MaxCalls
    /\ \E in \in CallInputs :
         call' = [call EXCEPT ![p] =
                    [IdleCall EXCEPT !.pc = "build", !.in = in, !.attempt = 1,
                                     !.readerLeft = (in.r \in {"reader"}),
                                     !.calls = call[p].calls + 1,
                                     !.via = "builder"]]
    /\ UNCHANGED <<cAuth, configured>> /\ UNCHANGED nonClientVars

\* The body bytes Client.request builds from r (262-298): "payload", "empty",
\* or the error that ends the attempt.  An io.Reader yields its bytes once.
BuildBody(c) ==
    CASE c.in.r = "nil"           -> "empty"
      [] c.in.r = "bytes"         -> "payload"
      [] c.in.r = "reader"        -> IF c.readerLeft THEN "payload" ELSE "empty"
      [] c.in.r = "failreader"    -> "err_readrequest"
      [] c.in.r = "proto"         -> "payload"
      [] c.in.r = "plain"         -> "payload"
      [] c.in.r = "unmarshalable" -> "err_marshal"

IsErr(x) == x \in {"err_readrequest", "err_marshal", "err_newrequest", "err_authorize",
                   "err_transport", "err_readbody", "err_validate", "err_invalidate"}

\* A call ends: Client.Request returns (nil, err), (res, nil), or the goroutine
\* panics on a nil interface.
Finish(c, result) == [c EXCEPT !.pc = "done", !.result = result]

\* Client.request 262-308: serialize r, then http.NewRequest.
RequestBuild(p) ==
    LET c == call[p]
        b == BuildBody(c)
    IN /\ c.pc = "build"
       /\ call' = [call EXCEPT ![p] =
            IF IsErr(b) THEN Finish(c, b)
            ELSE IF c.in.url = "bad"
                 THEN Finish([c EXCEPT !.readerLeft = FALSE], "err_newrequest")
                 ELSE [c EXCEPT !.pc = "chk_auth", !.body = b, !.readerLeft = FALSE]]
       /\ UNCHANGED <<cAuth, configured>> /\ UNCHANGED nonClientVars

\* Client.request 309: if c.auth != nil.
RequestCheckAuth(p) ==
    LET c == call[p]
    IN /\ c.pc = "chk_auth"
       /\ call' = [call EXCEPT ![p] =
                     [c EXCEPT !.pc = IF cAuth = "nil" THEN "send" ELSE "save_auth"]]
       /\ UNCHANGED <<cAuth, configured>> /\ UNCHANGED nonClientVars

\* Client.request 310: auth := c.auth.
RequestSaveAuth(p) ==
    LET c == call[p]
    IN /\ c.pc = "save_auth"
       /\ call' = [call EXCEPT ![p] = [c EXCEPT !.pc = "clear_auth", !.local = cAuth]]
       /\ UNCHANGED <<cAuth, configured>> /\ UNCHANGED nonClientVars

\* Client.request 311: c.auth = nil.
RequestClearAuth(p) ==
    LET c == call[p]
    IN /\ c.pc = "clear_auth"
       /\ cAuth' = "nil"
       /\ call' = [call EXCEPT ![p] = [c EXCEPT !.pc = "authorize"]]
       /\ UNCHANGED configured /\ UNCHANGED nonClientVars

\* Client.request 313-318: where the attempt goes once Authorize returned.
AfterAuthorizeLeak(err) == "restore_ok"
AfterAuthorize(err) == IF err THEN "restore_err" ELSE "restore_ok"

\* Client.request 312: err := auth.Authorize(req), on the saved strategy.
RequestAuthorize(p) ==
    LET c == call[p]
    IN /\ c.pc = "authorize"
       /\ \/ /\ c.local = "nil"
             /\ call' = [call EXCEPT ![p] = Finish(c, "panic")]
          \/ /\ c.local = "auth"
             /\ \E err \in BOOLEAN :
                  call' = [call EXCEPT ![p] =
                     [c EXCEPT !.pc = AfterAuthorize(err),
                               !.trace = Append(@, IF err THEN "authorize_err"
                                                          ELSE "authorize_ok")]]
       /\ UNCHANGED <<cAuth, configured>> /\ UNCHANGED nonClientVars

\* Client.request 314 and 318: c.auth = auth, on the error path and on the
\* success path.
RestoredOnSuccessOnly(pc, local) == IF pc = "restore_err" THEN "nil" ELSE local
Restored(pc, local) == local

\* Client.request 314-316 and 318: c.auth = auth, then return the error or go on.
RequestRestoreAuth(p) ==
    LET c == call[p]
    IN /\ c.pc \in {"restore_ok", "restore_err"}
       /\ cAuth' = Restored(c.pc, c.local)
       /\ call' = [call EXCEPT ![p] =
                     IF c.pc = "restore_err" THEN Finish(c, "err_authorize")
                     ELSE [c EXCEPT !.pc = "send"]]
       /\ UNCHANGED configured /\ UNCHANGED nonClientVars

\* Client.Request 235-238 and 251-257: where the call goes once Client.request
\* returned a response: the first attempt's is validated, the retry's is returned.
AfterRequestOkAgain(attempt) == "chk_validate"
AfterRequestOk(attempt) == IF attempt = 1 THEN "chk_validate" ELSE "return"

\* Who called Client.request: Client.Request goes on at 235, Request.Do (142)
\* returns what Client.request returned.
AfterSendOk(via, attempt) == IF via = "builder" THEN "return" ELSE AfterRequestOk(attempt)

\* Client.request 320-352: c.client.Do(req), then ioutil.ReadAll(res.Body).
\* resValid is what the strategy's Validate reports of this response.
RequestSend(p) ==
    LET c == call[p]
        s == [c EXCEPT !.sent = Append(@, c.body)]
    IN /\ c.pc = "send"
       /\ \/ call' = [call EXCEPT ![p] =
                        Finish([s EXCEPT !.trace = Append(@, "send_err")], "err_transport")]
          \/ call' = [call EXCEPT ![p] =
                        Finish([s EXCEPT !.trace = Append(@, "send_readerr")], "err_readbody")]
          \/ \E v \in BOOLEAN :
               call' = [call EXCEPT ![p] =
                  LET t == [s EXCEPT !.trace = Append(@, "send_ok"), !.resValid = v]
                  IN IF AfterSendOk(c.via, c.attempt) = "return" THEN Finish(t, "ok")
                     ELSE [t EXCEPT !.pc = AfterSendOk(c.via, c.attempt)]]
       /\ UNCHANGED <<cAuth, configured>> /\ UNCHANGED nonClientVars

\* Client.Request 239: if c.auth != nil.
RequestCheckValidate(p) ==
    LET c == call[p]
    IN /\ c.pc = "chk_validate"
       /\ call' = [call EXCEPT ![p] =
                     IF cAuth = "nil" THEN Finish(c, "ok") ELSE [c EXCEPT !.pc = "validate"]]
       /\ UNCHANGED <<cAuth, configured>> /\ UNCHANGED nonClientVars

\* Client.Request 241-245: where the call goes once Validate returned.
AfterValidate(err, valid) ==
    IF err THEN "fail" ELSE IF valid THEN "return" ELSE "invalidate"

\* Client.Request 240: valid, err := c.auth.Validate(res).
RequestValidate(p) ==
    LET c == call[p]
    IN /\ c.pc = "validate"
       /\ \/ /\ cAuth = "nil"
             /\ call' = [call EXCEPT ![p] = Finish(c, "panic")]
          \/ /\ cAuth = "auth"
             /\ \E err \in BOOLEAN :
                  LET valid == c.resValid
                      ev == IF err THEN "validate_err"
                            ELSE IF valid THEN "validate_valid" ELSE "validate_invalid"
                      t == [c EXCEPT !.trace = Append(@, ev)]
                      nxt == AfterValidate(err, valid)
                  IN call' = [call EXCEPT ![p] =
                        CASE nxt = "fail" -> Finish(t, "err_validate")
                          [] nxt = "return" -> Finish(t, "ok")
                          [] OTHER -> [t EXCEPT !.pc = nxt]]
       /\ UNCHANGED <<cAuth, configured>> /\ UNCHANGED nonClientVars

\* Client.Request 247-251: where the call goes once Invalidate returned.
AfterInvalidateIgnoreErr(err) == "build"
AfterInvalidate(err) == IF err THEN "fail" ELSE "build"

\* Client.Request 246: err = c.auth.Invalidate().
RequestInvalidate(p) ==
    LET c == call[p]
    IN /\ c.pc = "invalidate"
       /\ \/ /\ cAuth = "nil"
             /\ call' = [call EXCEPT ![p] = Finish(c, "panic")]
          \/ /\ cAuth = "auth"
             /\ \E err \in BOOLEAN :
                  LET t == [c EXCEPT !.trace = Append(@, IF err THEN "invalidate_err"
                                                                ELSE "invalidate_ok")]
                  IN call' = [call EXCEPT ![p] =
                        IF AfterInvalidate(err) = "fail" THEN Finish(t, "err_invalidate")
                        ELSE [t EXCEPT !.pc = AfterInvalidate(err),
                                       !.attempt = c.attempt + 1]]
       /\ UNCHANGED <<cAuth, configured>> /\ UNCHANGED nonClientVars

ClientInit ==
    /\ cAuth = "nil"
    /\ configured = FALSE
    /\ call = [p \in Callers |-> IdleCall]

(***************************************************************************)
(* ------------------------- Server and Session -------------------------- *)
(* Server.Use, route.ServeHTTP (src/server.go 16-88) and the Session's     *)
(* Data map and Status calls (src/unnamed/part_003).                       *)
(***************************************************************************)

\* A middleware is named by the Server.Use call that registered it and its
\* position among that call's arguments; the route's handlerFunc is Terminal.
Terminal == [call |-> 0, arg |-> 0]

Mw(c, a) == [call |-> c, arg |-> a]

\* Server.Use 85-88: s.middlewares = append(middlewares, s.middlewares...).
Use(mws, new) == new \o mws

\* Server.Use called with k middlewares.  It is called while the server is
\* set up, before requests are served.
ServerUse(k) ==
    /\ served = 0
    /\ Len(middlewares) + k <= MaxUse
    /\ middlewares' = Use(middlewares, [a \in 1..k |-> Mw(useCalls + 1, a)])
    /\ useCalls' = useCalls + 1
    /\ UNCHANGED <<sess, heap, served>> /\ UNCHANGED nonServerVars

\* route.ServeHTTP 32-35: handler := rt.handlerFunc; for each mw in
\* server.middlewares, in order, handler = mw(handler).  The composed handler
\* is the sequence of functions from the outermost to the terminal one.
RECURSIVE ComposeFrom(_, _, _)
ComposeFrom(mws, i, handler) ==
    IF i > Len(mws) THEN handler
    ELSE ComposeFrom(mws, i + 1, <<mws[i]>> \o handler)

Compose(mws) == ComposeFrom(mws, 1, <<Terminal>>)

\* route.ServeHTTP 28: Data: make(map[interface{}]interface{}), a new map.
AllocMapShared(h) == 1
AllocMap(h) == Len(h) + 1

\* The response writer before anything is written.
NoResponse == [wroteHeader |-> FALSE, code |-> 0, body |-> <<>>]

FreeSession == [st |-> "free", id |-> 0, chain |-> <<>>, depth |-> 0,
                entered |-> <<>>, unwinding |-> FALSE, map |-> 0, wrote |-> {},
                resp |-> NoResponse, statusCalls |-> <<>>, ops |-> <<>>,
                outcome |-> "none"]

\* route.ServeHTTP 21-41, up to the call handler(s): a new Session with a
\* new Data map, the handler composed, the outermost function entered.
ServeHTTP(r) ==
    /\ sess[r].st \in {"free", "done"}
    /\ served < MaxRequests
    /\ LET m == AllocMap(heap)
           ch == Compose(middlewares)
       IN /\ heap' = IF m > Len(heap) THEN Append(heap, {}) ELSE heap
          /\ sess' = [sess EXCEPT ![r] =
                        [FreeSession EXCEPT !.st = "running", !.id = served + 1,
                                            !.chain = ch, !.depth = 1,
                                            !.entered = <<ch[1]>>, !.map = m]]
    /\ served' = served + 1
    /\ UNCHANGED <<middlewares, useCalls>> /\ UNCHANGED nonServerVars

\* s.Data[k] = v by the function that is executing; the value written names
\* the request that wrote it.
MapPut(data, k, v) == {e \in data : e[1] # k} \cup {<<k, v>>}

SessionPut(r, k) ==
    LET s == sess[r]
    IN /\ s.st = "running"
       /\ heap' = [heap EXCEPT ![s.map] = MapPut(@, k, s.id)]
       /\ sess' = [sess EXCEPT ![r] = [s EXCEPT !.wrote = @ \cup {k}]]
       /\ UNCHANGED <<middlewares, useCalls, served>> /\ UNCHANGED nonServerVars

\* A middleware calls the handler it wraps.
CallInner(r) ==
    LET s == sess[r]
    IN /\ s.st = "running"
       /\ ~s.unwinding
       /\ s.depth < Len(s.chain)
       /\ sess' = [sess EXCEPT ![r] =
                     [s EXCEPT !.depth = s.depth + 1,
                               !.entered = Append(@, s.chain[s.depth + 1])]]
       /\ UNCHANGED <<middlewares, useCalls, heap, served>> /\ UNCHANGED nonServerVars

\* route.ServeHTTP 36-40: the deferred function deletes every key of s.Data,
\* however handler(s) ended.
ReleasedUnlessPanic(data, outcome) == IF outcome = "panic" THEN data ELSE {}
ReleasedUnlessShortCircuit(data, outcome) == IF outcome = "shortcircuit" THEN data ELSE {}
Released(data, outcome) == {}

\* The composed handler has ended with `outcome`; the deferred release runs
\* and ServeHTTP is over.
EndServeStatusOnPanic(s, outcome) ==
    [s EXCEPT !.st = "done", !.outcome = outcome, !.depth = 0,
              !.resp = IF outcome = "panic" /\ ~s.resp.wroteHeader
                       THEN [wroteHeader |-> TRUE, code |-> 500, body |-> s.resp.body]
                       ELSE s.resp]
EndServe(s, outcome) == [s EXCEPT !.st = "done", !.outcome = outcome, !.depth = 0]

\* The executing function returns.  An inner function returns to the
\* middleware that called it; the outermost returns to ServeHTTP.  A middleware
\* that returns without having called its inner handler short-circuits.
Return(r) ==
    LET s == sess[r]
        outcome == IF Len(s.entered) < Len(s.chain) THEN "shortcircuit" ELSE "returned"
    IN /\ s.st = "running"
       /\ IF s.depth > 1
          THEN /\ sess' = [sess EXCEPT ![r] =
                             [s EXCEPT !.depth = s.depth - 1, !.unwinding = TRUE]]
               /\ UNCHANGED heap
          ELSE /\ sess' = [sess EXCEPT ![r] = EndServe(s, outcome)]
               /\ heap' = [heap EXCEPT ![s.map] = Released(@, outcome)]
       /\ UNCHANGED <<middlewares, useCalls, served>> /\ UNCHANGED nonServerVars

\* The executing function panics; the panic unwinds every frame of the chain
\* and ServeHTTP, whose deferred function runs.
Panic(r) ==
    LET s == sess[r]
    IN /\ s.st = "running"
       /\ sess' = [sess EXCEPT ![r] = EndServe(s, "panic")]
       /\ heap' = [heap EXCEPT ![s.map] = Released(@, "panic")]
       /\ UNCHANGED <<middlewares, useCalls, served>> /\ UNCHANGED nonServerVars

\* What Session.Status(code), Session.Statusf(code, format, args...) and
\* Session.Error(err) are called with (131-143): Status passes
\* http.StatusText(code) as the message, Error passes code 500.
StatusInputs == {[fn |-> "Status", code |-> 404, msg |-> "Not Found"],
                 [fn |-> "Statusf", code |-> 400, msg |-> "bad id"],
                 [fn |-> "Error", code |-> 500, msg |-> "boom"]}

\* Session.Statusf 135-139: http.Error(s.ResponseWriter, msg, code), which
\* calls WriteHeader(code) and then writes msg to the body.  The response
\* writer keeps the first WriteHeader's code and appends every Write.
HttpError(w, msg, code) ==
    [wroteHeader |-> TRUE,
     code |-> IF w.wroteHeader THEN w.code ELSE code,
     body |-> Append(w.body, msg)]

SessionStatus(r, in) ==
    LET s == sess[r]
    IN /\ s.st = "running"
       /\ Len(s.statusCalls) < MaxStatus
       /\ sess' = [sess EXCEPT ![r] =
                     [s EXCEPT !.resp = HttpError(s.resp, in.msg, in.code),
                               !.statusCalls = Append(@, in)]]
       /\ UNCHANGED <<middlewares, useCalls, heap, served>> /\ UNCHANGED nonServerVars

ServerInit0 ==
    /\ middlewares = <<>>
    /\ useCalls = 0
    /\ sess = [r \in Reqs |-> FreeSession]
    /\ heap = <<>>
    /\ served = 0

(***************************************************************************)
(* --------------------------- Session.Decode ---------------------------- *)
(* src/unnamed/part_003 90-115, 195-210.                                   *)
(***************************************************************************)

\* part_003 51-53
ProtobufContentTypes == <<"application/protobuf", "application/x-protobuf">>

\* strings.HasPrefix
HasPrefix(s, prefix) ==
    /\ Len(s) >= Len(prefix)
    /\ SubSeq(s, 1, Len(prefix)) = prefix

\* http.Header.Get: the first value of the header, "" when there is none.
HeaderGet(values) == IF Len(values) = 0 THEN "" ELSE values[1]

\* contentType 195-197
contentType(req) == HeaderGet(req.contentType)

\* isTypeOf 203-210: true at the first type that is a prefix of mime.
RECURSIVE isTypeOfFrom(_, _, _)
isTypeOfFrom(mime, types, i) ==
    IF i > Len(types) THEN FALSE
    ELSE IF HasPrefix(mime, types[i]) THEN TRUE
    ELSE isTypeOfFrom(mime, types, i + 1)

isTypeOfExact(mime, types) == \E i \in 1..Len(types) : mime = types[i]
isTypeOf(mime, types) == isTypeOfFrom(mime, types, 1)

\* isProto 199-201
isProto(mime) == isTypeOf(mime, ProtobufContentTypes)

\* The destinations passed to Decode: a proto.Message (of a proto2 type with a
\* required field, as the sample's User), a pointer to a plain struct, a map.
DestKinds == {"proto", "plain", "map"}

\* The request bodies: a JSON document, a JSON document that leaves the
\* destination's required field unset (such as {}), a protobuf encoding, no
\* bytes at all, bytes that are none of these, and a body whose Read fails.
BodyKinds == {"json", "json_norequired", "protobuf", "empty", "garbage", "unreadable"}

\* json.NewDecoder(body).Decode(v) (105, 113) succeeds on a JSON document; it
\* knows nothing of required fields.
JSONDecodes(body) == body \in {"json", "json_norequired"}

\* The values of the request's Content-Type header.
ContentTypeHeaders ==
    {<<>>,
     <<"">>,
     <<"application/json">>,
     <<"application/json; charset=utf-8">>,
     <<"application/protobuf">>,
     <<"application/x-protobuf">>,
     <<"application/protobuf; proto=User">>,
     <<"application/x-protobuf;v=1">>,
     <<"application/protobu">>,
     <<"application/x-proto">>,
     <<"x-protobuf">>,
     <<"text/plain">>,
     <<"Application/Protobuf">>,
     <<" application/protobuf">>,
     <<"application/json", "application/protobuf">>,
     <<"application/x-protobuf", "application/json">>}

DecodeInputs ==
    [dest : DestKinds, contentType : ContentTypeHeaders, body : BodyKinds]

\* Session.Decode 90-115: the decoder used and the error returned.
\* proto.Unmarshal accepts a protobuf encoding, the JSON decoder a JSON document.
Decode(req) ==
    IF req.dest = "proto"
    THEN IF isProto(contentType(req))
         THEN [path |-> "proto",
               err |-> CASE req.body = "unreadable" -> "read"
                         [] req.body = "protobuf" -> "nil"
                         [] OTHER -> "unmarshal"]
         ELSE [path |-> "json",
               err |-> IF JSONDecodes(req.body) THEN "nil" ELSE "json"]
    ELSE [path |-> "json",
          err |-> IF JSONDecodes(req.body) THEN "nil" ELSE "json"]

\* A handler calls s.Decode(val).
SessionDecode ==
    /\ dec.st = "input"
    /\ dec' = [st |-> "decoded", in |-> dec.in, out |-> Decode(dec.in)]
    /\ UNCHANGED nonDecodeVars

DecodeInit0 == dec = [st |-> "none"]

(***************************************************************************)
(* --------------------------- Session.Encode ---------------------------- *)
(* src/unnamed/part_003 117-129, 160-193, 212-221.                         *)
(***************************************************************************)

\* accepts 212-221: for each type in order, for each Accept value in order,
\* the type is returned at the first value it is a prefix of; "" when none.
RECURSIVE acceptsValueFrom(_, _, _)
acceptsValueFrom(t, acc, j) ==
    IF j > Len(acc) THEN FALSE
    ELSE IF HasPrefix(acc[j], t) THEN TRUE
    ELSE acceptsValueFrom(t, acc, j + 1)

RECURSIVE acceptsFrom(_, _, _)
acceptsFrom(types, acc, i) ==
    IF i > Len(types) THEN ""
    ELSE IF acceptsValueFrom(types[i], acc, 1) THEN types[i]
    ELSE acceptsFrom(types, acc, i + 1)

\* The loops of 213-214 exchanged: the values outside, the types inside.
RECURSIVE acceptsTypeFrom(_, _, _)
acceptsTypeFrom(types, a, i) ==
    IF i > Len(types) THEN ""
    ELSE IF HasPrefix(a, types[i]) THEN types[i]
    ELSE acceptsTypeFrom(types, a, i + 1)

RECURSIVE acceptsByValueFrom(_, _, _)
acceptsByValueFrom(types, acc, j) ==
    IF j > Len(acc) THEN ""
    ELSE IF acceptsTypeFrom(types, acc[j], 1) # "" THEN acceptsTypeFrom(types, acc[j], 1)
    ELSE acceptsByValueFrom(types, acc, j + 1)

acceptsValueOrder(types, acc) == acceptsByValueFrom(types, acc, 1)
acceptsFirstValueOnly(types, acc) ==
    acceptsFrom(types, IF Len(acc) = 0 THEN acc ELSE <<acc[1]>>, 1)
accepts(types, acc) == acceptsFrom(types, acc, 1)

\* The values passed to Encode: a proto.Message, a proto.Message with a
\* required field unset (proto.Marshal rejects it, encoding/json does not),
\* plain data, and a value encoding/json rejects.
ValKinds == {"proto", "proto_unset", "plain", "unmarshalable"}

\* The proto.Message case of the type switch (118-119).
IsProtoMessage(v) == v \in {"proto", "proto_unset"}

\* The values of the request's Accept header.
AcceptHeaders ==
    {<<>>,
     <<"application/json">>,
     <<"application/protobuf">>,
     <<"application/x-protobuf">>,
     <<"application/x-protobuf", "application/protobuf">>,
     <<"application/json", "application/x-protobuf;q=0.9">>,
     <<"*/*">>,
     <<"application/json, application/protobuf">>,
     <<"text/html", "application/protobu">>}

\* wfail: whether the response writer's Write fails (the connection is gone).
EncodeInputs ==
    [val : ValKinds, contentType : ContentTypeHeaders, accept : AcceptHeaders,
     wfail : BOOLEAN]

\* What one call leaves on the response: the Content-Type header set, the
\* error returned, the body bytes written ("none": Write was not called or
\* failed), the status written (0: WriteHeader was not called; the writer's
\* first Write writes 200), and the number of Marshal calls made.
EncodeResult(path, ctype, err, body, status) ==
    [path |-> path, ctype |-> ctype, err |-> err, body |-> body, status |-> status,
     marshals |-> 1]

\* Session.encodeProto 160-177.
encodeProto(v, accept, wfail) ==
    LET ctype == IF accept = "" THEN ProtobufContentTypes[1] ELSE accept
    IN IF v = "proto_unset"
       THEN EncodeResult("proto", ctype, "marshal", "none", 0)
       ELSE IF wfail THEN EncodeResult("proto", ctype, "write", "none", 200)
       ELSE EncodeResult("proto", ctype, "nil", "protobuf", 200)

\* Session.encodeJSON 179-193.
encodeJSONStatusOnError(v, wfail) ==
    IF v = "unmarshalable"
    THEN EncodeResult("json", "application/json", "marshal", "none", 500)
    ELSE IF wfail THEN EncodeResult("json", "application/json", "write", "none", 200)
    ELSE EncodeResult("json", "application/json", "nil", "json", 200)
encodeJSON(v, wfail) ==
    IF v = "unmarshalable"
    THEN EncodeResult("json", "application/json", "marshal", "none", 0)
    ELSE IF wfail THEN EncodeResult("json", "application/json", "write", "none", 200)
    ELSE EncodeResult("json", "application/json", "nil", "json", 200)

\* Session.Encode 117-129.
Encode(req) ==
    IF IsProtoMessage(req.val)
    THEN LET accept == accepts(ProtobufContentTypes, req.accept)
         IN IF isProto(contentType(req)) \/ accept # ""
            THEN encodeProto(req.val, accept, req.wfail)
            ELSE encodeJSON(req.val, req.wfail)
    ELSE encodeJSON(req.val, req.wfail)

\* A handler calls s.Encode(val).
SessionEncode ==
    /\ enc.st = "input"
    /\ enc' = [st |-> "encoded", in |-> enc.in, out |-> Encode(enc.in)]
    /\ UNCHANGED nonEncodeVars

EncodeInit0 == enc = [st |-> "none"]

(***************************************************************************)
(* ------------------------ Sample user service -------------------------- *)
(* src/sample/user.go: UserHandler over the users map.  The router matches *)
(* /user/{id:[a-z]+} for every method (66).  http.ListenAndServe (60) runs *)
(* the handler of each connection in a goroutine of its own, and users is  *)
(* a package-level map that no lock protects: the handlers' accesses to it *)
(* interleave, and an access that overlaps another goroutine's write is a  *)
(* data race, which the Go runtime may answer by aborting the process      *)
(* ("concurrent map writes", "concurrent map read and map write").         *)
(***************************************************************************)
SampleIds == {"alice", "bob"}

Methods == {"GET", "POST", "DELETE", "PUT"}

\* The connections requests arrive on.
Conns == {"c1", "c2"}

\* A nil *User: what the map yields for an absent id.
NilUser == [email |-> "nil", name |-> "nil"]

\* user.go 8-13: the users map holds alice at start.
InitialUsers ==
    [id \in SampleIds |->
        IF id = "alice" THEN [email |-> "alice", name |-> "alice"] ELSE NilUser]

\* The User a body decodes to: a document carries its email and display name,
\* one without the required field carries the display name only.
DecodedUser(body) ==
    IF body = "json_norequired" THEN [email |-> "unset", name |-> "posted"]
    ELSE [email |-> "posted", name |-> "posted"]

\* The requests: a method, the id of the path, and for POST a body: none, a
\* JSON document, or a JSON document without the required email.
SampleRequests ==
    {[method |-> m, id |-> id, contentType |-> <<>>, body |-> "empty"] :
        m \in Methods, id \in SampleIds}
    \cup {[method |-> "POST", id |-> id, contentType |-> <<>>, body |-> b] :
            id \in SampleIds, b \in {"json", "json_norequired"}}

\* Session.Status(code, val) as user.go calls it: the status code is written
\* and val, when not nil, is encoded as the body (a sequence of at most one
\* value).
Status2(code, val) == [code |-> code, body |-> IF val = NilUser THEN <<>> ELSE <<val>>]

\* The handler returned without writing: the transport answers 200 with an
\* empty body.
DefaultResponse == [code |-> 200, body |-> <<>>]

HandleGetAlwaysOk(user) == Status2(200, user)

\* user.go 19-25: the response to a GET, given what users[id] yielded.
HandleGet(user) == IF user = NilUser THEN Status2(404, NilUser) ELSE Status2(200, user)

\* user.go 27-32: the error of s.Decode(user).
HandlePostDecode(req) ==
    Decode([dest |-> "proto", contentType |-> req.contentType, body |-> req.body]).err

\* user.go 33: users[id] = user.
HandlePostAssign(store, id, user) == [store EXCEPT ![id] = user]

HandleDeleteKeep(store, id) == store

\* user.go 39: delete(users, id).
HandleDeleteDelete(store, id) == [store EXCEPT ![id] = NilUser]

\* user.go 40-42
HandleOther == Status2(405, NilUser)

IdleConn ==
    [pc |-> "idle",
     req |-> [method |-> "GET", id |-> "alice", contentType |-> <<>>, body |-> "empty"],
     user |-> NilUser, began |-> 0, present |-> FALSE,
     resp |-> DefaultResponse, wrote |-> FALSE]

\* Requests accepted so far: the answered ones and those being handled.
Accepted == Len(log) + Cardinality({c \in Conns : conn[c].pc # "idle"})

\* Whether the goroutine of connection c is inside a write of the map (33, 39).
Writing(c) == conn[c].pc \in {"post_writing", "del_deleting"}

\* Whether the goroutine of connection c is at, or inside, an access of the map.
AtMapAccess(c) ==
    \/ conn[c].pc = "handle" /\ conn[c].req.method \in {"GET", "DELETE"}
    \/ conn[c].pc \in {"post_assign", "del_delete", "post_writing", "del_deleting"}

\* The handler of connection c is done with the map and goes on to answer:
\* resp is the response it writes with s.Status or, having returned without
\* writing, the one the transport writes for it.  Writing to the connection
\* can block, and the other goroutines run meanwhile.
Responding(c, resp, present, wrote) ==
    conn' = [conn EXCEPT ![c] = [@ EXCEPT !.pc = "respond", !.resp = resp,
                                          !.present = present, !.wrote = wrote]]

\* A request arrives on connection c: the server starts UserHandler in the
\* connection's goroutine (15-17).
SampleAccept(c, req) ==
    /\ ~fatal
    /\ conn[c].pc = "idle"
    /\ Accepted < MaxSample
    /\ conn' = [conn EXCEPT ![c] = [IdleConn EXCEPT !.pc = "handle", !.req = req,
                                                    !.began = Len(log)]]
    /\ UNCHANGED <<users, log, fatal>> /\ UNCHANGED nonSampleVars

\* The same, with requests arriving one at a time: no other is being handled.
SampleAcceptAlone(c, req) ==
    /\ ~fatal
    /\ \A d \in Conns : conn[d].pc = "idle"
    /\ Accepted < MaxSample
    /\ conn' = [conn EXCEPT ![c] = [IdleConn EXCEPT !.pc = "handle", !.req = req,
                                                    !.began = Len(log)]]
    /\ UNCHANGED <<users, log, fatal>> /\ UNCHANGED nonSampleVars

\* case "GET", 18-19: users[id] is read; the response follows from what the
\* read yielded (20-25).
SampleGet(c) ==
    /\ ~fatal
    /\ conn[c].pc = "handle" /\ conn[c].req.method = "GET"
    /\ Responding(c, HandleGet(users[conn[c].req.id]), users[conn[c].req.id] # NilUser, FALSE)
    /\ UNCHANGED <<users, log, fatal>> /\ UNCHANGED nonSampleVars

\* case "POST", 26-32: the body is decoded; an error is to be answered 400.
SamplePostDecode(c) ==
    /\ ~fatal
    /\ conn[c].pc = "handle" /\ conn[c].req.method = "POST"
    /\ IF HandlePostDecode(conn[c].req) # "nil"
       THEN Responding(c, Status2(400, NilUser), FALSE, FALSE)
       ELSE conn' = [conn EXCEPT ![c] = [@ EXCEPT !.pc = "post_assign",
                                                  !.user = DecodedUser(conn[c].req.body)]]
    /\ UNCHANGED <<users, log, fatal>> /\ UNCHANGED nonSampleVars

\* case "DELETE", 34-35: users[id] is read; nil is to be answered 404 (36).
SampleDeleteTest(c) ==
    /\ ~fatal
    /\ conn[c].pc = "handle" /\ conn[c].req.method = "DELETE"
    /\ IF users[conn[c].req.id] = NilUser
       THEN Responding(c, Status2(404, NilUser), FALSE, FALSE)
       ELSE conn' = [conn EXCEPT ![c] = [@ EXCEPT !.pc = "del_delete", !.present = TRUE]]
    /\ UNCHANGED <<users, log, fatal>> /\ UNCHANGED nonSampleVars

\* default, 40-42
SampleOther(c) ==
    /\ ~fatal
    /\ conn[c].pc = "handle" /\ conn[c].req.method \notin {"GET", "POST", "DELETE"}
    /\ Responding(c, HandleOther, FALSE, FALSE)
    /\ UNCHANGED <<users, log, fatal>> /\ UNCHANGED nonSampleVars

\* The write of the map at 33 or 39 begins.
SampleMapWriteBegin(c) ==
    /\ ~fatal
    /\ conn[c].pc \in {"post_assign", "del_delete"}
    /\ conn' = [conn EXCEPT ![c] =
                  [@ EXCEPT !.pc = IF conn[c].pc = "post_assign" THEN "post_writing"
                                   ELSE "del_deleting"]]
    /\ UNCHANGED <<users, log, fatal>> /\ UNCHANGED nonSampleVars

\* The write of the map at 33 or 39 ends.  The handler has written no
\* response: once it has returned (44) the transport answers for it.
SampleMapWriteEnd(c) ==
    /\ ~fatal
    /\ Writing(c)
    /\ users' = IF conn[c].pc = "post_writing"
                THEN HandlePostAssign(users, conn[c].req.id, conn[c].user)
                ELSE HandleDeleteDelete(users, conn[c].req.id)
    /\ Responding(c, DefaultResponse, conn[c].present, TRUE)
    /\ UNCHANGED <<log, fatal>> /\ UNCHANGED nonSampleVars

\* The response of connection c reaches the client: s.Status at 21, 24, 30, 36
\* or 41, or the transport's 200 after the return at 44.  It is logged with the
\* number of requests answered when this one was accepted, what the handler's
\* lookup found, and whether the handler wrote the map.
SampleRespond(c) ==
    /\ ~fatal
    /\ conn[c].pc = "respond"
    /\ log' = Append(log, [req |-> conn[c].req, resp |-> conn[c].resp,
                           began |-> conn[c].began, present |-> conn[c].present,
                           wrote |-> conn[c].wrote])
    /\ conn' = [conn EXCEPT ![c] = IdleConn]
    /\ UNCHANGED <<users, fatal>> /\ UNCHANGED nonSampleVars

\* The data race: the goroutine of connection c accesses the map (the read of
\* 19 or 35, the assignment of 33, the delete of 39) while another goroutine
\* is inside a write of it (33, 39).  These statements compile to the
\* runtime's map routines, which on finding a write in progress end the
\* process ("fatal error: concurrent map writes", "concurrent map read and
\* map write"); the check is best effort, so the access may also go through,
\* which the other actions give.  After the abort no request is answered.
SampleFatal(c) ==
    /\ ~fatal
    /\ AtMapAccess(c)
    /\ \E d \in Conns \ {c} : Writing(d)
    /\ fatal' = TRUE
    /\ UNCHANGED <<users, log, conn>> /\ UNCHANGED nonSampleVars

SampleInit0 ==
    /\ users = InitialUsers
    /\ log = <<>>
    /\ conn = [c \in Conns |-> IdleConn]
    /\ fatal = FALSE

(***************************************************************************)
(* ----------------------------- URL builder ----------------------------- *)
(* src/unnamed/part_001 16-59.  A URL is its url string and its query, the *)
(* url.Values map from a name to the values added under it, in the order   *)
(* they were added (an empty sequence: the name is not in the map).        *)
(***************************************************************************)
Names == {"id", "gender"}

\* Names in the order url.Values.Encode writes them: sorted by key.
SortedNames == <<"gender", "id">>

ParamValues == {"lucky", "a b"}

Bases == {"http://h", "h/", "{id}/pets", "h/{id}"}

Paths == {"v1", "pets/", "/{id}", ""}

\* strings.HasSuffix
HasSuffix(s, suffix) ==
    /\ Len(s) >= Len(suffix)
    /\ SubSeq(s, Len(s) - Len(suffix) + 1, Len(s)) = suffix

\* strings.Index: the 0-based offset of the first occurrence, or -1.
Index(s, sub) ==
    LET hits == {i \in 0..(Len(s) - Len(sub)) : SubSeq(s, i + 1, i + Len(sub)) = sub}
    IN IF hits = {} THEN -1 ELSE CHOOSE i \in hits : \A j \in hits : i <= j

\* make(url.Values)
EmptyQuery == [n \in Names |-> <<>>]

\* NewURL, 21-23
NewURL(u) == [url |-> u, query |-> EmptyQuery]

\* URL.Join, 25-40
JoinAlwaysSlash(r, path) == [r EXCEPT !.url = r.url \o "/" \o path]
Join(r, path) ==
    IF HasSuffix(r.url, "/")
    THEN IF HasPrefix(path, "/")
         THEN [r EXCEPT !.url = r.url \o SubSeq(path, 2, Len(path))]
         ELSE [r EXCEPT !.url = r.url \o path]
    ELSE IF HasPrefix(path, "/")
         THEN [r EXCEPT !.url = r.url \o path]
         ELSE [r EXCEPT !.url = r.url \o "/" \o path]

\* URL.Param, 42-51
Param(r, name, value) ==
    LET sub == "{" \o name \o "}"
        i == Index(r.url, sub)
    IN IF i > 0
       THEN [r EXCEPT !.url = SubSeq(r.url, 1, i) \o value
                              \o SubSeq(r.url, i + Len(sub) + 1, Len(r.url))]
       ELSE [r EXCEPT !.query[name] = Append(@, value)]

\* url.QueryEscape over the characters the values hold: a space becomes "+",
\* letters stay.
RECURSIVE QueryEscape(_)
QueryEscape(s) ==
    IF Len(s) = 0 THEN ""
    ELSE (IF SubSeq(s, 1, 1) = " " THEN "+" ELSE SubSeq(s, 1, 1))
         \o QueryEscape(SubSeq(s, 2, Len(s)))

\* The name=value pairs of one name, in the order the values were added.
PairsOf(query, name) ==
    [i \in 1..Len(query[name]) |-> name \o "=" \o QueryEscape(query[name][i])]

RECURSIVE JoinAmp(_)
JoinAmp(parts) ==
    IF Len(parts) = 0 THEN ""
    ELSE IF Len(parts) = 1 THEN parts[1]
    ELSE parts[1] \o "&" \o JoinAmp(Tail(parts))

\* url.Values.Encode: names sorted, each name's values in insertion order.
RECURSIVE AllPairs(_, _)
AllPairs(query, k) ==
    IF k > Len(SortedNames) THEN <<>>
    ELSE PairsOf(query, SortedNames[k]) \o AllPairs(query, k + 1)
ValuesEncode(query) == JoinAmp(AllPairs(query, 1))

\* URL.Encode, 53-59
URLEncode(r) ==
    IF \E n \in Names : Len(r.query[n]) > 0
    THEN r.url \o "?" \o ValuesEncode(r.query)
    ELSE r.url

\* The operation applied last, with the URL it was applied to.
LastOp(op, a, b, r) == [op |-> op, a |-> a, b |-> b, url |-> r.url, query |-> r.query]

URLNew(u) ==
    /\ urlb.st = "none"
    /\ urlb' = [st |-> "built", r |-> NewURL(u), n |-> 0,
                last |-> LastOp("NewURL", u, "", NewURL(""))]
    /\ UNCHANGED nonURLVars

URLJoin(path) ==
    /\ urlb.st = "built"
    /\ urlb.n < MaxOps
    /\ urlb' = [urlb EXCEPT !.r = Join(urlb.r, path), !.n = @ + 1,
                            !.last = LastOp("Join", path, "", urlb.r)]
    /\ UNCHANGED nonURLVars

URLParam(name, value) ==
    /\ urlb.st = "built"
    /\ urlb.n < MaxOps
    /\ urlb' = [urlb EXCEPT !.r = Param(urlb.r, name, value), !.n = @ + 1,
                            !.last = LastOp("Param", name, value, urlb.r)]
    /\ UNCHANGED nonURLVars

URLInit0 == urlb = [st |-> "none"]

(***************************************************************************)
(* -------------------------- Session.RemoteAddr ------------------------- *)
(* src/unnamed/part_003 63-80.                                             *)
(***************************************************************************)
\* The IP literals net.ParseIP accepts among the strings below.
IPLiterals == {"1.2.3.4", "5.6.7.8", "::1"}

\* http.Request.RemoteAddr: the transport's peer address.
PeerAddrs ==
    {"1.2.3.4:80", "5.6.7.8:443", "[::1]:80", "localhost:80", ":80",
     "1.2.3.4", "::1", "[::1]", "bogus", ""}

\* Header["X-Forwarded-For"]: absent, or the values of the header.
ForwardedFors ==
    {<<>>, <<"1.2.3.4">>, <<"::1">>, <<"5.6.7.8,1.2.3.4">>, <<"1.2.3.4", "5.6.7.8">>,
     <<"unknown">>, <<"unknown,1.2.3.4">>, <<"localhost:80">>, <<"1.2.3.4:80">>,
     <<"">>, <<",1.2.3.4">>}

AddrInputs == [remote : PeerAddrs, fwd : ForwardedFors]

\* strings.LastIndex: the 0-based offset of the last occurrence, or -1.
LastIndex(s, sub) ==
    LET hits == {i \in 0..(Len(s) - Len(sub)) : SubSeq(s, i + 1, i + Len(sub)) = sub}
    IN IF hits = {} THEN -1 ELSE CHOOSE i \in hits : \A j \in hits : i >= j

\* strings.Split(fwd, ",")[0]
FirstEntry(fwd) == IF Index(fwd, ",") < 0 THEN fwd ELSE SubSeq(fwd, 1, Index(fwd, ","))

\* net.SplitHostPort: the host, or an error when the port is missing, the
\* colons are too many or a bracket is misplaced.
SplitHostPort(hostport) ==
    LET i == LastIndex(hostport, ":")
        end == Index(hostport, "]")
        Fail == [host |-> "", err |-> TRUE]
    IN IF i < 0 THEN Fail
       ELSE IF HasPrefix(hostport, "[")
       THEN IF end < 0 \/ end + 1 # i THEN Fail
            ELSE IF \/ Index(SubSeq(hostport, 2, Len(hostport)), "[") >= 0
                    \/ Index(SubSeq(hostport, end + 2, Len(hostport)), "]") >= 0
                 THEN Fail
                 ELSE [host |-> SubSeq(hostport, 2, end), err |-> FALSE]
       ELSE IF \/ Index(SubSeq(hostport, 1, i), ":") >= 0
               \/ Index(hostport, "[") >= 0
               \/ Index(hostport, "]") >= 0
            THEN Fail
            ELSE [host |-> SubSeq(hostport, 1, i), err |-> FALSE]

\* net.ParseIP: the IP, or nil.
ParseIP(s) == IF s \in IPLiterals THEN s ELSE "nil"

\* Session.RemoteAddr, 63-80: the IP returned, whether the failure was logged,
\* and whether the call panicked: err.Error() at 77 is called on a nil error
\* when SplitHostPort succeeded.
RemoteAddr(req) ==
    LET addr0 == IF Len(req.fwd) > 0 THEN FirstEntry(req.fwd[1]) ELSE req.remote
        sp == SplitHostPort(addr0)
        addr == IF ~sp.err THEN sp.host ELSE addr0
        ip == ParseIP(addr)
    IN IF ip = "nil"
       THEN IF sp.err THEN [ip |-> "nil", logged |-> TRUE, panic |-> FALSE]
            ELSE [ip |-> "nil", logged |-> FALSE, panic |-> TRUE]
       ELSE [ip |-> ip, logged |-> FALSE, panic |-> FALSE]

SessionRemoteAddr ==
    /\ ra.st = "none"
    /\ \E req \in AddrInputs :
         ra' = [st |-> "resolved", in |-> req, out |-> RemoteAddr(req)]
    /\ UNCHANGED nonAddrVars

AddrInit0 == ra = [st |-> "none"]

(***************************************************************************)
(* ----------------------------- Session.Var ----------------------------- *)
(* src/unnamed/part_003 145-158.                                           *)
(***************************************************************************)
VarKeys == {"id", "name"}

\* mux.Vars(s.Request): the route's path parameters; a key that is not in the
\* map reads as "".
RouteVars == [VarKeys -> {"", "r"}]

\* Request.Form: the values of the query string and the body form of each key.
FormValues == [VarKeys -> {<<>>, <<"">>, <<"f">>, <<"", "f">>, <<"f", "g">>}]

Presets == {"", "d"}

VarInputs == [vars : RouteVars, form : FormValues, key : VarKeys, preset : Presets]

\* http.Request.FormValue: the first value of the key, or "".
FormValue(form, key) == IF Len(form[key]) > 0 THEN form[key][1] ELSE ""

\* Session.Var, 149-158
VarFormFirst(req) ==
    LET val == FormValue(req.form, req.key)
        val2 == IF val = "" THEN req.vars[req.key] ELSE val
    IN IF val2 = "" THEN req.preset ELSE val2
Var(req) ==
    LET val == req.vars[req.key]
        val2 == IF val = "" THEN FormValue(req.form, req.key) ELSE val
    IN IF val2 = "" THEN req.preset ELSE val2

SessionVar ==
    /\ sv.st = "none"
    /\ \E req \in VarInputs : sv' = [st |-> "resolved", in |-> req, out |-> Var(req)]
    /\ UNCHANGED nonVarVars

VarInit0 == sv = [st |-> "none"]


(***************************************************************************)
(* --------------------------- Response.Decode --------------------------- *)
(* src/server.go 168-186; Response.Unmarshal of the variant (441-459) is   *)
(* the same function.                                                      *)
(***************************************************************************)
\* The destinations: a proto.Message, or any other value.
ResponseDests == {"proto", "plain"}

\* Response.Body: a JSON document, a protobuf encoding, an HTML page, no bytes.
ResponseBodies == {"{}", "pbbytes", "<html>502</html>", ""}

ResponseInputs ==
    [dest : ResponseDests, protobuf : BOOLEAN, contentType : ContentTypeHeaders,
     body : ResponseBodies]

\* json.Unmarshal(r.Body, val) and proto.Unmarshal(r.Body, val): the error.
JSONUnmarshal(body) == IF body = "{}" THEN "nil" ELSE "json: parse error"

ProtoUnmarshal(body) == IF body = "pbbytes" THEN "nil" ELSE "proto: parse error"

\* The condition of 182: the error is replaced by one made of the body.
wrapsBodyAnyDecoder(err, protobuf, ctype) == err # "nil" /\ ctype # "application/json"
wrapsBody(err, protobuf, ctype) ==
    err # "nil" /\ ~protobuf /\ ctype # "application/json"

\* Response.Decode 168-186: the decoder used and the error returned: nil, the
\* decoder's error, or fmt.Errorf("%s", r.Body), whose message is the body.
ResponseDecode(req) ==
    LET protobuf == req.dest = "proto" /\ req.protobuf
        err == IF protobuf THEN ProtoUnmarshal(req.body) ELSE JSONUnmarshal(req.body)
    IN IF wrapsBody(err, protobuf, HeaderGet(req.contentType))
       THEN [path |-> IF protobuf THEN "proto" ELSE "json", err |-> "raw", msg |-> req.body]
       ELSE [path |-> IF protobuf THEN "proto" ELSE "json",
             err |-> IF err = "nil" THEN "nil" ELSE "parse", msg |-> err]

\* The caller of the Client calls res.Decode(val).
ResponseDecodeCall ==
    /\ rsp.st = "input"
    /\ rsp' = [st |-> "decoded", in |-> rsp.in, out |-> ResponseDecode(rsp.in)]
    /\ UNCHANGED nonRspVars

RspInit0 == rsp = [st |-> "none"]

(***************************************************************************)
(* ------------------------------- accepts ------------------------------- *)
(* src/unnamed/part_003 212-221, applied to lists of types and of Accept   *)
(* values.                                                                 *)
(***************************************************************************)
\* The lists of types: the registered protobuf types (51-53, the one list the
\* code passes), the same in the other order, a JSON type, and no type.
AcceptTypeLists ==
    {ProtobufContentTypes, <<"application/x-protobuf", "application/protobuf">>,
     <<"application/json">>, <<>>}

AcceptValues ==
    {"application/json", "application/protobuf", "application/x-protobuf;q=0.9",
     "application/protobu", "*/*"}

\* Header["Accept"]: up to MaxAccept values.
AcceptLists == UNION {[1..n -> AcceptValues] : n \in 0..MaxAccept}

AcceptsInputs == [types : AcceptTypeLists, values : AcceptLists]

\* accepts(types, values) is called.
AcceptsCall ==
    /\ acpt.st = "input"
    /\ acpt' = [st |-> "done", in |-> acpt.in, out |-> accepts(acpt.in.types, acpt.in.values)]
    /\ UNCHANGED nonAccVars

AccInit0 == acpt = [st |-> "none"]

(***************************************************************************)
(* ------------------ A handler's Decode and Encode calls ---------------- *)
(* The functions of a chain call s.Decode and s.Encode on the request's    *)
(* Session (src/unnamed/part_003 90-129); what Encode writes goes to the   *)
(* request's ResponseWriter.                                               *)
(***************************************************************************)
\* The requests of one connection, served one after another.
HandlerReqs == {"r1"}

HandlerDecodeInputs ==
    {[dest |-> "proto", contentType |-> <<>>, body |-> b] : b \in {"json", "garbage"}}

HandlerEncodeInputs ==
    {[val |-> v, contentType |-> <<>>, accept |-> <<>>, wfail |-> FALSE] :
        v \in {"plain", "unmarshalable"}}

\* ResponseWriter.Write as Encode calls it (170, 186): the first write of a
\* response writes the status 200, every Write appends to the body.
EncodeWrite(w, out) ==
    IF out.status = 0 THEN w
    ELSE [wroteHeader |-> TRUE,
          code |-> IF w.wroteHeader THEN w.code ELSE out.status,
          body |-> IF out.body = "none" THEN w.body ELSE Append(w.body, out.body)]

HasOp(s, fn) == \E i \in 1..Len(s.ops) : s.ops[i].fn = fn

\* The executing function calls s.Decode(val), once per request.
SessionDecodeCall(r, in) ==
    LET s == sess[r]
    IN /\ s.st = "running"
       /\ ~HasOp(s, "Decode")
       /\ sess' = [sess EXCEPT ![r] =
                     [s EXCEPT !.ops = Append(@, [fn |-> "Decode", err |-> Decode(in).err,
                                                  wrote |-> FALSE])]]
       /\ UNCHANGED <<middlewares, useCalls, heap, served>> /\ UNCHANGED nonServerVars

\* The executing function calls s.Encode(val), once per request.
SessionEncodeCall(r, in) ==
    LET s == sess[r]
        out == Encode(in)
    IN /\ s.st = "running"
       /\ ~HasOp(s, "Encode")
       /\ sess' = [sess EXCEPT ![r] =
                     [s EXCEPT !.resp = EncodeWrite(s.resp, out),
                               !.ops = Append(@, [fn |-> "Encode", err |-> out.err,
                                                  wrote |-> out.body # "none"])]]
       /\ UNCHANGED <<middlewares, useCalls, heap, served>> /\ UNCHANGED nonServerVars

(***************************************************************************)
(* Specifications                                                          *)
(***************************************************************************)

Init ==
    /\ ClientInit /\ ServerInit0 /\ DecodeInit0
    /\ EncodeInit0 /\ VarInit0 /\ AddrInit0 /\ URLInit0 /\ SampleInit0
    /\ RspInit0 /\ AccInit0

\* The Client: goroutines calling Client.Request on one shared Client.
Next ==
    \/ ClientAuth
    \/ \E p \in Callers : CallRequest(p)
    \/ \E p \in Callers : RequestBuild(p)
    \/ \E p \in Callers : RequestCheckAuth(p)
    \/ \E p \in Callers : RequestSaveAuth(p)
    \/ \E p \in Callers : RequestClearAuth(p)
    \/ \E p \in Callers : RequestAuthorize(p)
    \/ \E p \in Callers : RequestRestoreAuth(p)
    \/ \E p \in Callers : RequestSend(p)
    \/ \E p \in Callers : RequestCheckValidate(p)
    \/ \E p \in Callers : RequestValidate(p)
    \/ \E p \in Callers : RequestInvalidate(p)

Spec == Init /\ [][Next]_vars

\* The Server: middlewares registered, then requests served concurrently, the
\* functions of each chain writing Session.Data.
NextServer ==
    \/ \E k \in 1..2 : ServerUse(k)
    \/ \E r \in Reqs : ServeHTTP(r)
    \/ \E r \in Reqs, k \in Keys : SessionPut(r, k)
    \/ \E r \in Reqs : CallInner(r)
    \/ \E r \in Reqs : Return(r)
    \/ \E r \in Reqs : Panic(r)

SpecServer == Init /\ [][NextServer]_vars

\* The Session's response: requests served by a route whose handler calls
\* Status, Statusf and Error.
NextStatus ==
    \/ \E r \in Reqs : ServeHTTP(r)
    \/ \E r \in Reqs, in \in StatusInputs : SessionStatus(r, in)
    \/ \E r \in Reqs : Return(r)
    \/ \E r \in Reqs : Panic(r)

SpecStatus == Init /\ [][NextStatus]_vars

\* The requests of one connection, handled by functions that call Decode,
\* Encode, Status, Statusf and Error.
NextHandler ==
    \/ \E r \in HandlerReqs : ServeHTTP(r)
    \/ \E r \in HandlerReqs, in \in HandlerDecodeInputs : SessionDecodeCall(r, in)
    \/ \E r \in HandlerReqs, in \in HandlerEncodeInputs : SessionEncodeCall(r, in)
    \/ \E r \in HandlerReqs, in \in StatusInputs : SessionStatus(r, in)
    \/ \E r \in HandlerReqs : Return(r)
    \/ \E r \in HandlerReqs : Panic(r)

SpecHandler == Init /\ [][NextHandler]_vars

\* Session.Decode over its inputs.
InitDecode ==
    /\ ClientInit
    /\ ServerInit0
    /\ EncodeInit0 /\ VarInit0 /\ AddrInit0 /\ URLInit0 /\ SampleInit0
    /\ RspInit0 /\ AccInit0
    /\ \E in \in DecodeInputs : dec = [st |-> "input", in |-> in]

NextDecode == SessionDecode

SpecDecode == InitDecode /\ [][NextDecode]_vars

\* The sample user service answering a sequence of requests.
NextSample ==
    \/ \E c \in Conns, req \in SampleRequests : SampleAccept(c, req)
    \/ \E c \in Conns : SampleGet(c)
    \/ \E c \in Conns : SamplePostDecode(c)
    \/ \E c \in Conns : SampleDeleteTest(c)
    \/ \E c \in Conns : SampleOther(c)
    \/ \E c \in Conns : SampleMapWriteBegin(c)
    \/ \E c \in Conns : SampleMapWriteEnd(c)
    \/ \E c \in Conns : SampleRespond(c)
    \/ \E c \in Conns : SampleFatal(c)

SpecSample == Init /\ [][NextSample]_vars

\* The sample user service answering its requests one at a time, as
\* TestServer sends them.
NextSampleSeq ==
    \/ \E c \in Conns, req \in SampleRequests : SampleAcceptAlone(c, req)
    \/ \E c \in Conns : SampleGet(c)
    \/ \E c \in Conns : SamplePostDecode(c)
    \/ \E c \in Conns : SampleDeleteTest(c)
    \/ \E c \in Conns : SampleOther(c)
    \/ \E c \in Conns : SampleMapWriteBegin(c)
    \/ \E c \in Conns : SampleMapWriteEnd(c)
    \/ \E c \in Conns : SampleRespond(c)

SpecSampleSeq == Init /\ [][NextSampleSeq]_vars

\* One URL built by NewURL and a sequence of Join and Param calls.
NextURL ==
    \/ \E u \in Bases : URLNew(u)
    \/ \E path \in Paths : URLJoin(path)
    \/ \E name \in Names, value \in ParamValues : URLParam(name, value)

SpecURL == Init /\ [][NextURL]_vars

\* The Client called through the Request builder, one call at a time.
NextSeq ==
    \/ ClientAuth
    \/ \E p \in Callers : RequestDo(p)
    \/ \E p \in Callers : RequestBuild(p)
    \/ \E p \in Callers : RequestCheckAuth(p)
    \/ \E p \in Callers : RequestSaveAuth(p)
    \/ \E p \in Callers : RequestClearAuth(p)
    \/ \E p \in Callers : RequestAuthorize(p)
    \/ \E p \in Callers : RequestRestoreAuth(p)
    \/ \E p \in Callers : RequestSend(p)

SpecSeq == Init /\ [][NextSeq]_vars

\* The Client called in a single-threaded execution: Client.Request calls made
\* one after another.
NextOne ==
    \/ ClientAuth
    \/ \E p \in Callers : CallRequestAlone(p)
    \/ \E p \in Callers : RequestBuild(p)
    \/ \E p \in Callers : RequestCheckAuth(p)
    \/ \E p \in Callers : RequestSaveAuth(p)
    \/ \E p \in Callers : RequestClearAuth(p)
    \/ \E p \in Callers : RequestAuthorize(p)
    \/ \E p \in Callers : RequestRestoreAuth(p)
    \/ \E p \in Callers : RequestSend(p)
    \/ \E p \in Callers : RequestCheckValidate(p)
    \/ \E p \in Callers : RequestValidate(p)
    \/ \E p \in Callers : RequestInvalidate(p)

SpecOne == Init /\ [][NextOne]_vars

\* Session.RemoteAddr over its inputs.
NextAddr == SessionRemoteAddr

SpecAddr == Init /\ [][NextAddr]_vars

\* Session.Var over its inputs.
NextVar == SessionVar

SpecVar == Init /\ [][NextVar]_vars

\* Response.Decode over its inputs.
InitRsp ==
    /\ ClientInit /\ ServerInit0 /\ DecodeInit0
    /\ EncodeInit0 /\ VarInit0 /\ AddrInit0 /\ URLInit0 /\ SampleInit0
    /\ AccInit0
    /\ \E in \in ResponseInputs : rsp = [st |-> "input", in |-> in]

NextRsp == ResponseDecodeCall

SpecRsp == InitRsp /\ [][NextRsp]_vars

\* accepts over its inputs.
InitAcc ==
    /\ ClientInit /\ ServerInit0 /\ DecodeInit0
    /\ EncodeInit0 /\ VarInit0 /\ AddrInit0 /\ URLInit0 /\ SampleInit0
    /\ RspInit0
    /\ \E in \in AcceptsInputs : acpt = [st |-> "input", in |-> in]

NextAcc == AcceptsCall

SpecAcc == InitAcc /\ [][NextAcc]_vars

\* Session.Encode over its inputs.
InitEncode ==
    /\ ClientInit /\ ServerInit0 /\ DecodeInit0
    /\ VarInit0 /\ AddrInit0 /\ URLInit0 /\ SampleInit0
    /\ RspInit0 /\ AccInit0
    /\ \E in \in EncodeInputs : enc = [st |-> "input", in |-> in]

NextEncode == SessionEncode

SpecEncode == InitEncode /\ [][NextEncode]_vars

(***************************************************************************)
(* Properties of the Client                                                *)
(***************************************************************************)
IsSend(e) == e \in {"send_ok", "send_err", "send_readerr"}

IsValidate(e) == e \in {"validate_valid", "validate_invalid", "validate_err"}

\* The positions of the send events in a call's trace.
SendsAt(t) == {i \in 1..Len(t) : IsSend(t[i])}

\* C1: a logical Client.Request call sends the request at most twice, whatever
\* the strategy and the transport return.
C1_AtMostTwoSends ==
    \A p \in Callers :
        /\ Len(call[p].sent) <= 2
        /\ Cardinality(SendsAt(call[p].trace)) = Len(call[p].sent)

\* A call that retried and returned the second response.
C1_Witness ==
    \E p \in Callers :
        /\ call[p].pc = "done"
        /\ call[p].result = "ok"
        /\ Len(call[p].sent) = 2

\* C2: when the first response is reported invalid and the response to the
\* retried send is invalid again, Client.Request returns an error.
C2_SecondInvalidIsError ==
    \A p \in Callers :
        LET c == call[p]
        IN (/\ c.pc = "done"
            /\ \E i \in 1..Len(c.trace) : c.trace[i] = "validate_invalid"
            /\ Len(c.sent) = 2
            /\ Last(c.trace) = "send_ok"
            /\ ~c.resValid)
           => IsErr(c.result)

\* C3: a retried send happens only after a first send that succeeded, a
\* Validate that returned (invalid, nil) and an Invalidate that returned nil,
\* in that order; a transport error on the first send, an error from Validate
\* and an error from Invalidate each end the call with that error, with one
\* send made.
C3_RetryOnlyAfterInvalidate ==
    \A p \in Callers :
        LET c == call[p]
            t == c.trace
            ends(i, res) == /\ i = Len(t)
                            /\ c.pc = "done"
                            /\ c.result = res
                            /\ Len(c.sent) = 1
        IN /\ \A k \in SendsAt(t) :
                (\E j \in SendsAt(t) : j < k) =>
                    \E a, b, d \in 1..Len(t) :
                        /\ a < b /\ b < d /\ d < k
                        /\ a \in SendsAt(t) /\ t[a] = "send_ok"
                        /\ \A j \in SendsAt(t) : j >= a
                        /\ t[b] = "validate_invalid"
                        /\ t[d] = "invalidate_ok"
           /\ \A i \in 1..Len(t) :
                /\ (t[i] = "send_err" /\ \A j \in SendsAt(t) : j >= i)
                       => ends(i, "err_transport")
                /\ t[i] = "validate_err" => ends(i, "err_validate")
                /\ t[i] = "invalidate_err" => ends(i, "err_invalidate")

\* One call is past its retried send while another ended on Invalidate's error.
C3_Witness ==
    \E p, q \in Callers :
        /\ Len(call[p].sent) = 2
        /\ call[q].pc = "done"
        /\ call[q].result = "err_invalidate"
        /\ Len(call[q].sent) = 1

\* C4: when Authorize returns an error for a send attempt, the attempt returns
\* that error and the transport send of that attempt is not performed.
C4_AuthorizeErrorNoSend ==
    \A p \in Callers :
        LET c == call[p]
            t == c.trace
        IN \A i \in 1..Len(t) :
              t[i] = "authorize_err" =>
                  /\ i = Len(t)
                  /\ c.pc \in {"restore_err", "done"}
                  /\ c.pc = "done" => c.result = "err_authorize"
                  /\ Len(c.sent) = Cardinality({j \in SendsAt(t) : j < i})

\* Authorize failed on the retry: one send was made, and the call returned
\* the error.
C4_Witness ==
    \E p \in Callers :
        /\ call[p].pc = "done"
        /\ call[p].result = "err_authorize"
        /\ call[p].attempt = 2
        /\ Len(call[p].sent) = 1

\* C9: with a strategy configured, concurrent calls on one Client each have
\* Authorize applied before every send and Validate applied to the first
\* response; no call finds the strategy absent.
C9_ConcurrentCallsSeeStrategy ==
    \A p \in Callers :
        LET c == call[p]
            t == c.trace
        IN configured =>
             /\ c.result # "panic"
             /\ \A i \in SendsAt(t) : i > 1 /\ t[i - 1] = "authorize_ok"
             /\ (c.pc = "done" /\ \E i \in 1..Len(t) : t[i] = "send_ok")
                    => \E i \in 1..Len(t) : IsValidate(t[i])

(***************************************************************************)
(* Properties of the Session's response                                    *)
(***************************************************************************)
\* C5: of any sequence of Status / Statusf / Error calls on one Session, only
\* the first writes the response: the status and the body are those of the
\* first call.
C5_StatusWritesOnce ==
    \A r \in Reqs :
        LET s == sess[r]
        IN Len(s.statusCalls) >= 1 =>
             /\ s.resp.code = s.statusCalls[1].code
             /\ s.resp.body = <<s.statusCalls[1].msg>>

(***************************************************************************)
(* Properties of the middleware chain and Session.Data                     *)
(***************************************************************************)
\* The middlewares of a composed handler, from the outermost inwards.
ChainMws(s) == SubSeq(s.chain, 1, Len(s.chain) - 1)

\* C6: the most recently registered middleware is outermost, the first
\* registered one is closest to the terminal handler.
C6_LastRegisteredOutermost ==
    \A r \in Reqs :
        LET m == ChainMws(sess[r])
        IN \A i, j \in 1..Len(m) :
              i < j => \/ m[i].call > m[j].call
                       \/ m[i].call = m[j].call /\ m[i].arg > m[j].arg

\* C7: once the composed handler has finished (returned, short-circuited by a
\* middleware, or panicked) the Session's Data is empty.
C7_DataReleased ==
    \A r \in Reqs :
        sess[r].st = "done" => heap[sess[r].map] = {}

\* A request that wrote to Data and ended in a panic, and one that wrote and
\* was short-circuited.
C7_Witness ==
    \E r, q \in Reqs :
        /\ sess[r].st = "done" /\ sess[r].outcome = "panic" /\ sess[r].wrote # {}
        /\ sess[q].st = "done" /\ sess[q].outcome = "shortcircuit" /\ sess[q].wrote # {}

\* C8: each request has a Data map of its own: what a request finds in its
\* Session.Data was written by that request, under every interleaving.
C8_NoCrossRequestData ==
    \A r \in Reqs :
        sess[r].st # "free" =>
            /\ \A e \in heap[sess[r].map] : e[2] = sess[r].id
            /\ \A q \in Reqs \ {r} : sess[q].st # "free" => sess[q].map # sess[r].map

\* Two requests in progress, each holding the same key in its own Data.
C8_Witness ==
    \E k \in Keys :
        \A r \in Reqs :
            /\ sess[r].st = "running"
            /\ <<k, sess[r].id>> \in heap[sess[r].map]

(***************************************************************************)
(* Properties of Session.Decode                                            *)
(***************************************************************************)
\* C10: Decode takes the protobuf path exactly when the destination is a
\* proto.Message and the request's Content-Type starts with
\* application/protobuf or application/x-protobuf; otherwise the JSON path.
C10_DecodePath ==
    dec.st = "decoded" =>
        LET ct == IF dec.in.contentType = <<>> THEN "" ELSE dec.in.contentType[1]
            starts(x) == Len(ct) >= Len(x) /\ \A i \in 1..Len(x) : SubSeq(ct, i, i) = SubSeq(x, i, i)
            binary == /\ dec.in.dest = "proto"
                      /\ \/ starts("application/protobuf")
                         \/ starts("application/x-protobuf")
        IN /\ dec.out.path \in {"proto", "json"}
           /\ dec.out.path = "proto" <=> binary

\* C12: for a proto.Message destination, a body that is valid JSON but leaves
\* a required field unset makes Decode, on the JSON path, return an error.
C12_JSONRequiredFieldValidated ==
    (/\ dec.st = "decoded"
     /\ dec.in.dest = "proto"
     /\ dec.out.path = "json"
     /\ dec.in.body = "json_norequired")
    => dec.out.err # "nil"

\* A proto.Message decoded on the protobuf path under the x-protobuf spelling
\* with a parameter.
C10_Witness ==
    /\ dec.st = "decoded"
    /\ dec.in.dest = "proto"
    /\ dec.in.contentType = <<"application/x-protobuf;v=1">>
    /\ dec.in.body = "protobuf"
    /\ dec.out = [path |-> "proto", err |-> "nil"]

(***************************************************************************)
(* Properties of Session.Encode                                            *)
(***************************************************************************)
\* Whether string x begins with one of the two protobuf media types.
StartsBinary(x) ==
    \/ Len(x) >= 20 /\ SubSeq(x, 1, 20) = "application/protobuf"
    \/ Len(x) >= 22 /\ SubSeq(x, 1, 22) = "application/x-protobuf"

\* C11: Encode takes the protobuf path exactly when the value is a
\* proto.Message and the request's Content-Type begins with a protobuf type or
\* some value of its Accept header begins with one; otherwise it encodes JSON.
C11_EncodePath ==
    enc.st = "encoded" =>
        LET ct == IF enc.in.contentType = <<>> THEN "" ELSE enc.in.contentType[1]
            binary == /\ enc.in.val \in {"proto", "proto_unset"}
                      /\ \/ StartsBinary(ct)
                         \/ \E i \in 1..Len(enc.in.accept) : StartsBinary(enc.in.accept[i])
        IN /\ enc.out.path \in {"proto", "json"}
           /\ enc.out.path = "proto" <=> binary
           /\ enc.out.path = "json" => enc.out.ctype = "application/json"

\* A proto.Message sent with a JSON Content-Type whose second Accept value
\* names x-protobuf is encoded as protobuf.
C11_Witness ==
    /\ enc.st = "encoded"
    /\ enc.in.val = "proto"
    /\ enc.in.contentType = <<"application/json">>
    /\ enc.in.accept = <<"application/json", "application/x-protobuf;q=0.9">>
    /\ enc.out.path = "proto"
    /\ enc.out.ctype = "application/x-protobuf"

(***************************************************************************)
(* Properties of the sample user service                                   *)
(***************************************************************************)
\* Whether a POST's body carries every required field of User.
HasRequired(req) == req.body = "json"

\* Request j of the log was accepted once request i had been answered.
Follows(i, j) == i < j /\ log[j].began >= i

\* No other request for the key of requests i and j was being handled between
\* the arrival of i and the answer to j.
Undisturbed(i, j) ==
    /\ \A n \in 1..Len(log) :
         (n \notin {i, j} /\ log[n].req.id = log[i].req.id)
         => (n <= log[i].began \/ log[n].began >= j)
    /\ \A c \in Conns :
         (conn[c].pc # "idle" /\ conn[c].req.id = log[i].req.id) => conn[c].began >= j

C14_PostWithoutRequiredIs400 ==
    \A i \in 1..Len(log) :
        (/\ log[i].req.method = "POST"
         /\ log[i].req.body \in {"empty", "json_norequired"})
        => /\ log[i].resp.code = 400
           /\ ~log[i].wrote

SampleSeqWitness ==
    /\ Len(log) = 2
    /\ \A i \in 1..2 : log[i].req.method = "DELETE" /\ log[i].req.id = "alice"
    /\ log[1].resp.code = 200 /\ log[1].present /\ log[1].wrote
    /\ Follows(1, 2)
    /\ log[2].resp = [code |-> 404, body |-> <<>>]
    /\ users["alice"] = NilUser

\* A POST of a document without email has replaced alice, and a following GET
\* is answered 200 with the user that has no email.
SampleAliceReplaced ==
    /\ Len(log) = 2
    /\ log[1].req = [method |-> "POST", id |-> "alice", contentType |-> <<>>,
                     body |-> "json_norequired"]
    /\ log[1].resp.code = 200
    /\ log[2].req.method = "GET" /\ log[2].req.id = "alice"
    /\ log[2].resp = [code |-> 200, body |-> <<DecodedUser("json_norequired")>>]
    /\ users["alice"].email = "unset"

\* Two DELETEs of alice handled at the same time are both answered 200.
SampleBothDeleted ==
    /\ Len(log) = 2
    /\ \A i \in 1..2 : /\ log[i].req.method = "DELETE" /\ log[i].req.id = "alice"
                       /\ log[i].resp.code = 200
                       /\ log[i].began = 0

\* A GET that read alice before a DELETE removed her is answered, with her,
\* after the DELETE is.
SampleGetAfterDelete ==
    /\ Len(log) = 2
    /\ log[1].req.method = "DELETE" /\ log[1].req.id = "alice" /\ log[1].resp.code = 200
    /\ log[2].req.method = "GET" /\ log[2].req.id = "alice"
    /\ log[2].resp = [code |-> 200, body |-> <<InitialUsers["alice"]>>]
    /\ log[2].began = 0
    /\ users["alice"] = NilUser

\* A DELETE that read no bob is answered 404 after the POST that stored him.
SampleDelete404AfterPost ==
    /\ Len(log) = 2
    /\ log[1].req.method = "POST" /\ log[1].req.id = "bob" /\ log[1].resp.code = 200
    /\ log[2].req.method = "DELETE" /\ log[2].req.id = "bob" /\ log[2].resp.code = 404
    /\ log[2].began = 0
    /\ users["bob"] # NilUser

\* A GET that saw alice deleted is answered 404 before the DELETE is answered.
SampleGet404BeforeDelete ==
    /\ Len(log) = 2
    /\ log[1].req.method = "GET" /\ log[1].req.id = "alice" /\ log[1].resp.code = 404
    /\ log[2].req.method = "DELETE" /\ log[2].req.id = "alice" /\ log[2].resp.code = 200
    /\ log[2].began = 0

(***************************************************************************)
(* Properties of the URL builder                                           *)
(***************************************************************************)
Strip1Right(s) == IF HasSuffix(s, "/") THEN SubSeq(s, 1, Len(s) - 1) ELSE s

Strip1Left(s) == IF HasPrefix(s, "/") THEN SubSeq(s, 2, Len(s)) ELSE s

\* C16: Join yields the base and the segment separated by exactly one slash
\* at the join point: a slash at the end of the base and one at the start of
\* the segment count as that separator, which is neither doubled nor missing.
\* The query is untouched.
C16_JoinOneSlash ==
    (urlb.st = "built" /\ urlb.last.op = "Join")
    => /\ urlb.r.url = Strip1Right(urlb.last.url) \o "/" \o Strip1Left(urlb.last.a)
       /\ urlb.r.query = urlb.last.query

\* A base ending in a slash is joined with a segment starting with one.
C16_Witness ==
    /\ urlb.st = "built" /\ urlb.last.op = "Join"
    /\ HasSuffix(urlb.last.url, "/") /\ HasPrefix(urlb.last.a, "/")
    /\ urlb.r.url = "http://h/pets/{id}"

\* C17: when {name} occurs anywhere in the URL string, its very start
\* included, Param puts value in its place and adds no query parameter;
\* otherwise it adds value under name, after the values already there.
C17_ParamReplacesAnywhere ==
    (urlb.st = "built" /\ urlb.last.op = "Param")
    => LET name == urlb.last.a
           value == urlb.last.b
           sub == "{" \o name \o "}"
           i == Index(urlb.last.url, sub)
       IN IF i >= 0
          THEN /\ urlb.r.url = SubSeq(urlb.last.url, 1, i) \o value
                               \o SubSeq(urlb.last.url, i + Len(sub) + 1, Len(urlb.last.url))
               /\ urlb.r.query = urlb.last.query
          ELSE /\ urlb.r.url = urlb.last.url
               /\ urlb.r.query = [urlb.last.query EXCEPT ![name] = Append(@, value)]
               /\ HasSuffix(URLEncode(urlb.r), name \o "=" \o QueryEscape(value))
                  \/ name # SortedNames[Len(SortedNames)]

(***************************************************************************)
(* Properties of the Request builder                                       *)
(***************************************************************************)
\* C18: a call made through the Request builder follows the protocol of a
\* direct Client call: once its send succeeded with an authorization strategy
\* configured, Validate is consulted before the call returns, and an invalid
\* response leads to Invalidate and one retried send.
C18_BuilderFollowsProtocol ==
    \A p \in Callers :
        (/\ call[p].via = "builder" /\ call[p].pc = "done"
         /\ configured /\ cAuth = "auth"
         /\ \E i \in 1..Len(call[p].trace) : call[p].trace[i] = "send_ok")
        => /\ \E i \in 1..Len(call[p].trace) : IsValidate(call[p].trace[i])
           /\ ~call[p].resValid
              => \E i \in 1..Len(call[p].trace) : call[p].trace[i] = "invalidate_ok"

(***************************************************************************)
(* Properties of Session.RemoteAddr and Session.Var                        *)
(***************************************************************************)
\* The address RemoteAddr is to resolve: the first comma-separated entry of
\* X-Forwarded-For when the header is present, the peer address otherwise.
ChosenAddr(req) ==
    IF Len(req.fwd) > 0
    THEN LET parts == {i \in 0..Len(req.fwd[1]) :
                         i = Len(req.fwd[1]) \/ SubSeq(req.fwd[1], i + 1, i + 1) = ","}
             cut == CHOOSE i \in parts : \A j \in parts : i <= j
         IN SubSeq(req.fwd[1], 1, cut)
    ELSE req.remote

\* The IP an address string names, with or without a port, or "nil".
IPOf(a) ==
    IF a \in IPLiterals THEN a
    ELSE IF \E ip \in IPLiterals : a \in {ip \o ":80", ip \o ":443", "[" \o ip \o "]:80"}
         THEN CHOOSE ip \in IPLiterals : a \in {ip \o ":80", ip \o ":443", "[" \o ip \o "]:80"}
         ELSE "nil"

\* C19: RemoteAddr never crashes; it resolves the first entry of
\* X-Forwarded-For when present and the peer address otherwise, and for an
\* address that is no valid IP literal, with or without a port, it logs the
\* failure and returns a nil IP.
C19_RemoteAddrNeverCrashes ==
    ra.st = "resolved"
    => /\ ~ra.out.panic
       /\ ra.out.ip = IPOf(ChosenAddr(ra.in))
       /\ IPOf(ChosenAddr(ra.in)) = "nil" => ra.out.logged

\* C20: Var returns the route-path parameter of the key when it is not empty,
\* otherwise the request's query/form value when it is not empty, otherwise
\* the default.
C20_VarPrecedence ==
    sv.st = "resolved"
    => LET route == sv.in.vars[sv.in.key]
           form == IF sv.in.form[sv.in.key] = <<>> THEN "" ELSE Head(sv.in.form[sv.in.key])
       IN /\ route # "" => sv.out = route
          /\ (route = "" /\ form # "") => sv.out = form
          /\ (route = "" /\ form = "") => sv.out = sv.in.preset

\* The route has no value for the key and the form has one.
C20_Witness ==
    /\ sv.st = "resolved"
    /\ sv.in.vars[sv.in.key] = ""
    /\ sv.in.form[sv.in.key] = <<"f", "g">>
    /\ sv.in.preset = "d"
    /\ sv.out = "f"

(***************************************************************************)
(* Properties of Response.Decode                                           *)
(***************************************************************************)
\* C21: Decode returns an error whose message is the raw body exactly when
\* the JSON decoder was used, it failed, and the response's Content-Type is
\* not application/json; a failed binary decode, and a failed JSON decode of
\* an application/json response, return the decoder's error.
C21_RawBodyError ==
    rsp.st = "decoded"
    => LET binary == rsp.in.dest = "proto" /\ rsp.in.protobuf
           ctype == IF rsp.in.contentType = <<>> THEN "" ELSE Head(rsp.in.contentType)
           failed == IF binary THEN rsp.in.body # "pbbytes" ELSE rsp.in.body # "{}"
       IN /\ rsp.out.path = IF binary THEN "proto" ELSE "json"
          /\ (rsp.out.err = "raw" /\ rsp.out.msg = rsp.in.body)
             <=> (~binary /\ failed /\ ctype # "application/json")
          /\ (failed /\ (binary \/ ctype = "application/json"))
             => /\ rsp.out.err = "parse"
                /\ rsp.out.msg = IF binary THEN "proto: parse error" ELSE "json: parse error"
          /\ ~failed => rsp.out.err = "nil"

\* An HTML error page is decoded as JSON and comes back as the error.
C21_Witness ==
    /\ rsp.st = "decoded"
    /\ rsp.in.body = "<html>502</html>"
    /\ rsp.in.contentType = <<"text/plain">>
    /\ rsp.out = [path |-> "json", err |-> "raw", msg |-> "<html>502</html>"]

(***************************************************************************)
(* Properties of Session.Encode's failures                                 *)
(***************************************************************************)
\* Whether Encode serializes the value as protobuf.
EncodesBinary(in) ==
    /\ in.val \in {"proto", "proto_unset"}
    /\ \/ StartsBinary(IF in.contentType = <<>> THEN "" ELSE Head(in.contentType))
       \/ \E i \in 1..Len(in.accept) : StartsBinary(in.accept[i])

\* Whether serializing the value fails: proto.Marshal rejects a message with
\* a required field unset, json.MarshalIndent rejects an unmarshalable value.
SerializationFails(in) ==
    IF EncodesBinary(in) THEN in.val = "proto_unset" ELSE in.val = "unmarshalable"

\* C28: when serialization of the value fails inside Encode, on the binary or
\* the JSON path, Encode returns the error, writes no body bytes and no
\* status, and serializes once.
C28_EncodeFailureWritesNothing ==
    (enc.st = "encoded" /\ SerializationFails(enc.in))
    => /\ enc.out.err = "marshal"
       /\ enc.out.body = "none"
       /\ enc.out.status = 0
       /\ enc.out.marshals = 1

\* A value json.MarshalIndent rejects was passed to Encode.
C28_Witness ==
    /\ enc.st = "encoded"
    /\ enc.in.val = "unmarshalable"
    /\ enc.out.path = "json"
    /\ enc.out.err = "marshal"

\* Serialization failed on the binary path.
C28_WitnessBinary ==
    /\ enc.st = "encoded"
    /\ enc.in.val = "proto_unset"
    /\ enc.out.path = "proto"
    /\ enc.out.err = "marshal"

(***************************************************************************)
(* Properties of accepts                                                   *)
(***************************************************************************)
\* Whether type t is a prefix of one of the values.
PrefixOfSome(t, values) ==
    \E j \in 1..Len(values) :
        Len(values[j]) >= Len(t) /\ SubSeq(values[j], 1, Len(t)) = t

Reverse(s) == [i \in 1..Len(s) |-> s[Len(s) + 1 - i]]

\* C27: accepts returns the first type, in the order of the types, that is a
\* prefix of some Accept value, whatever the order of the Accept values
\* (application/protobuf before application/x-protobuf for the registered
\* types), and the empty string iff no type is a prefix of any value.
C27_AcceptsPriority ==
    acpt.st = "done"
    => LET types == acpt.in.types
           values == acpt.in.values
           hits == {i \in 1..Len(types) : PrefixOfSome(types[i], values)}
       IN /\ acpt.out = "" <=> hits = {}
          /\ hits # {} => acpt.out = types[CHOOSE i \in hits : \A k \in hits : i <= k]
          /\ accepts(types, Reverse(values)) = acpt.out
          /\ (/\ types = ProtobufContentTypes
              /\ PrefixOfSome("application/protobuf", values))
             => acpt.out = "application/protobuf"

\* x-protobuf is accepted first and protobuf second: protobuf is returned.
C27_Witness ==
    /\ acpt.st = "done"
    /\ acpt.in.types = ProtobufContentTypes
    /\ acpt.in.values = <<"application/x-protobuf;q=0.9", "application/protobuf">>
    /\ acpt.out = "application/protobuf"

(***************************************************************************)
(* Properties of the retried call                                          *)
(***************************************************************************)
IsPrefixOf(s, t) == Len(s) <= Len(t) /\ SubSeq(t, 1, Len(s)) = s

\* The events of a call up to the return of Invalidate.
RetryPrologue == <<"authorize_ok", "send_ok", "validate_invalid", "invalidate_ok">>

\* C23: in a Client.Request call that retries, the events are Authorize, send,
\* Validate, Invalidate, Authorize, send in this order: every send is preceded
\* by one Authorize of its attempt, and the second Authorize comes after
\* Invalidate returned without error.
C23_RetryEventOrder ==
    \A p \in Callers :
        LET t == call[p].trace
        IN (\E i \in 1..Len(t) : t[i] \in {"invalidate_ok", "invalidate_err"}
                                 \/ (IsSend(t[i]) /\ \E j \in 1..(i - 1) : IsSend(t[j])))
           => /\ \/ IsPrefixOf(t, RetryPrologue \o <<"authorize_ok", "send_ok">>)
                 \/ t = RetryPrologue \o <<"authorize_ok", "send_err">>
                 \/ t = RetryPrologue \o <<"authorize_ok", "send_readerr">>
                 \/ t = RetryPrologue \o <<"authorize_err">>
                 \/ t = <<"authorize_ok", "send_ok", "validate_invalid", "invalidate_err">>
              /\ \A i \in 1..Len(t) : IsSend(t[i]) => (i > 1 /\ t[i - 1] = "authorize_ok")

\* C25: when Client.Request retries, the retried send carries the body of the
\* first send, whatever the kind of the request value: schema message, plain
\* data, byte slice or io.Reader.
C25_RetrySendsSameBody ==
    \A p \in Callers :
        Len(call[p].sent) = 2 => call[p].sent[2] = call[p].sent[1]

\* Whether caller p is between c.auth = nil (311) and c.auth = auth (314, 318).
InAuthorize(p) == call[p].pc \in {"authorize", "restore_ok", "restore_err"}

\* C26: in a single-threaded execution the Client's strategy reference is the
\* one the call began with on every exit path of Client.request, and is absent
\* only while Authorize is executing.
C26_AuthRestored ==
    /\ (\E p \in Callers : InAuthorize(p)) => cAuth = "nil"
    /\ (~\E p \in Callers : InAuthorize(p)) => cAuth = IF configured THEN "auth" ELSE "nil"

\* Authorize failed and the call has returned its error.
C26_Witness ==
    \E p \in Callers :
        /\ call[p].pc = "done"
        /\ call[p].result = "err_authorize"
        /\ configured
        /\ cAuth = "auth"

(***************************************************************************)
(* Properties of the dispatcher                                            *)
(***************************************************************************)
\* The calls of a session that wrote to the response: the Status, Statusf and
\* Error calls, and the Encode calls that wrote a body.
WritingCalls(s) ==
    Len(s.statusCalls) + Cardinality({i \in 1..Len(s.ops) : s.ops[i].wrote})

\* C22: the Server itself never writes to the response: every status and every
\* piece of the body was written by a call of Encode, Status, Statusf or
\* Error; when none was made nothing is written, however the handler ended
\* and whatever error Decode or Encode returned.
C22_ServerWritesNothing ==
    \A r \in Reqs :
        LET s == sess[r]
        IN s.st \in {"running", "done"}
           => /\ Len(s.resp.body) = WritingCalls(s)
              /\ s.resp.wroteHeader <=> WritingCalls(s) > 0
              /\ WritingCalls(s) = 0 => s.resp = NoResponse
              /\ s.resp.wroteHeader
                 => \/ \E i \in 1..Len(s.statusCalls) : s.statusCalls[i].code = s.resp.code
                    \/ s.resp.code = 200 /\ \E i \in 1..Len(s.ops) : s.ops[i].wrote

\* The handler's Decode and Encode both returned an error, it wrote nothing,
\* and the request is over with nothing written.
C22_Witness ==
    \E r \in Reqs :
        /\ sess[r].st = "done"
        /\ Len(sess[r].ops) = 2
        /\ \A i \in 1..2 : sess[r].ops[i].err # "nil"
        /\ sess[r].statusCalls = <<>>
        /\ sess[r].resp = NoResponse

\* C24: when a middleware does not call its inner handler, the terminal
\* handler and the middlewares inside it are not invoked for the request, the
\* middlewares outside it have run, and the Session's Data is released.
C24_ShortCircuit ==
    \A r \in Reqs :
        LET s == sess[r]
        IN (s.st = "done" /\ s.outcome # "panic" /\ Len(s.entered) < Len(s.chain))
           => /\ s.entered = SubSeq(s.chain, 1, Len(s.entered))
              /\ \A i \in (Len(s.entered) + 1)..Len(s.chain) :
                    \A j \in 1..Len(s.entered) : s.entered[j] # s.chain[i]
              /\ \A j \in 1..Len(s.entered) : s.entered[j] # Terminal
              /\ s.entered # <<>>
              /\ heap[s.map] = {}

\* The second of three middlewares wrote to Data and returned without calling
\* the third.
C24_Witness ==
    \E r \in Reqs :
        /\ sess[r].st = "done"
        /\ Len(sess[r].chain) = 4
        /\ Len(sess[r].entered) = 2
        /\ sess[r].wrote # {}
        /\ heap[sess[r].map] = {}

====
